---- MODULE Spec2Model ----
(***************************************************************************)
(* Contact-form backend (src/app.py): POST /submit validates four form     *)
(* fields, sanitizes them, renders a notification and forwards it with one *)
(* outbound HTTP POST to the Telegram Bot API.                             *)
(*                                                                         *)
(* A text is a sequence of characters; a character is a one-element string *)
(* ("a", "&", "<"), and the unprintable ones are named: NUL (U+0000),      *)
(* TAB (U+0009), LF (U+000A), DEL (U+007F), NEL (U+0085), NBSP (U+00A0).   *)
(***************************************************************************)
EXTENDS Integers, Sequences, FiniteSets, TLC

VARIABLES
    TELEGRAM_BOT_TOKEN,     \* app.py:18, read-only after start-up
    TELEGRAM_CHAT_ID,       \* app.py:19, read-only after start-up
    json_error_is_request_exception,
                            \* the installed requests build: whether the error
                            \* Response.json() raises derives from RequestException
    state,                  \* position of the request in submit_contact_form
    form,                   \* request.form as received
    name, email, phone, message,    \* the request-local fields
    validation_errors,      \* app.py:112
    sanitize_calls,         \* number of sanitize_input applications so far
    telegram_message,       \* app.py:158, <<>> while nothing is formatted
    outbound,               \* the outbound HTTP POSTs issued, in order
    remote,                 \* what the remote end did with the POST
    fault,                  \* the exception raised while processing, or "none"
    escaped,                \* TRUE iff an exception left the handler
    responses,              \* the JSON responses returned, in order
    san_in, san_once, san_twice, san_pc
                            \* harness of the sanitize_input specification

vars == <<TELEGRAM_BOT_TOKEN, TELEGRAM_CHAT_ID, json_error_is_request_exception,
          state, form, name, email, phone, message, validation_errors, sanitize_calls,
          telegram_message, outbound, remote, fault, escaped, responses,
          san_in, san_once, san_twice, san_pc>>

-----------------------------------------------------------------------------
(* Characters *)

Digits == {"0", "1", "2", "3", "4", "5", "6", "7", "8", "9"}

Lower == {"a", "b", "c", "g", "l", "m", "o", "p", "q", "t", "u", "x"}

Upper == {"A", "B"}

Alpha == Lower \cup Upper

AlphaNum == Alpha \cup Digits

\* str.isspace(): what str.strip() trims and what \s matches.
Whitespace == {" ", "TAB", "LF", "NEL", "NBSP"}

\* [\x00-\x1f\x7f-\x9f]
ControlChars == {"NUL", "TAB", "LF", "DEL", "NEL"}

\* the five characters html.escape rewrites
SpecialChars == {"&", "<", ">", "\"", "'"}

\* c repeated n times
Rep(c, n) == [i \in 1..n |-> c]

-----------------------------------------------------------------------------
(* str.strip() *)

Strip(s) ==
    IF \A i \in 1..Len(s) : s[i] \in Whitespace THEN <<>>
    ELSE LET first == CHOOSE i \in 1..Len(s) :
                          /\ s[i] \notin Whitespace
                          /\ \A j \in 1..(i - 1) : s[j] \in Whitespace
             last == CHOOSE i \in 1..Len(s) :
                          /\ s[i] \notin Whitespace
                          /\ \A j \in (i + 1)..Len(s) : s[j] \in Whitespace
         IN  SubSeq(s, first, last)

(* re.sub(r'<[^>]+>', '', text): leftmost, non-overlapping matches.  A match *)
(* starts at a "<" and runs to the next ">", which must lie at least two     *)
(* places further on ([^>]+ needs one character); "<>" is no match.          *)
\* the first place from i on that holds c, 0 if there is none
IndexFrom(s, c, i) ==
    IF \A k \in i..Len(s) : s[k] # c THEN 0
    ELSE CHOOSE k \in i..Len(s) : s[k] = c /\ \A j \in i..(k - 1) : s[j] # c

RECURSIVE RemoveTagsFrom(_, _)
RemoveTagsFrom(s, i) ==
    LET a == IndexFrom(s, "<", i)
        b == IndexFrom(s, ">", a + 1)
    IN  IF a = 0 \/ b = 0 THEN SubSeq(s, i, Len(s))
        ELSE IF b >= a + 2
             THEN SubSeq(s, i, a - 1) \o RemoveTagsFrom(s, b + 1)
             ELSE SubSeq(s, i, a) \o RemoveTagsFrom(s, a + 1)

RemoveTags(text) == RemoveTagsFrom(text, 1)

\* html.escape(c) of one character (quote=True)
EscapeChar(c) ==
    CASE c = "&"  -> <<"&", "a", "m", "p", ";">>
      [] c = "<"  -> <<"&", "l", "t", ";">>
      [] c = ">"  -> <<"&", "g", "t", ";">>
      [] c = "\"" -> <<"&", "q", "u", "o", "t", ";">>
      [] c = "'"  -> <<"&", "#", "x", "2", "7", ";">>
      [] OTHER    -> <<c>>

\* html.escape of s[lo..hi]; the range is halved to keep the evaluation shallow
RECURSIVE EscapeRange(_, _, _)
EscapeRange(s, lo, hi) ==
    IF lo > hi THEN <<>>
    ELSE IF lo = hi THEN EscapeChar(s[lo])
    ELSE EscapeRange(s, lo, (lo + hi) \div 2) \o EscapeRange(s, (lo + hi) \div 2 + 1, hi)

\* html.escape(text)
escape(s) == EscapeRange(s, 1, Len(s))

IsNotControl(c) == c \notin ControlChars

\* re.sub(r'[\x00-\x1f\x7f-\x9f]', '', text)
RemoveControl(s) == SelectSeq(s, IsNotControl)

\* a plausible slip: trimming before the control characters are removed
sanitize_input_strip_first(text) ==
    IF text = <<>> THEN <<>>
    ELSE CHOOSE t4 \in
             { RemoveControl(t3) : t3 \in
                 { Strip(t2) : t2 \in
                     { escape(t1) : t1 \in {RemoveTags(text)} } } } : TRUE

\* app.py:23-43; text is rebound after each step, as in the code
sanitize_input(text) ==
    IF text = <<>> THEN <<>>
    ELSE CHOOSE t4 \in
             { Strip(t3) : t3 \in
                 { RemoveControl(t2) : t2 \in
                     { escape(t1) : t1 \in {RemoveTags(text)} } } } : TRUE

-----------------------------------------------------------------------------
(* Validators *)

NAME_MIN == 2

NAME_MAX == 100

MESSAGE_MIN == 10

MESSAGE_MAX == 1000

PHONE_MIN_DIGITS == 10

\* [a-zA-Z0-9._%+-]
LocalChars == AlphaNum \cup {".", "_", "%", "+", "-"}

\* [a-zA-Z0-9.-]
DomainChars == AlphaNum \cup {".", "-"}

\* ^[a-zA-Z0-9._%+-]+@[a-zA-Z0-9.-]+\.[a-zA-Z]{2,} up to the end of s
MatchesEmailPattern(s) ==
    \E at \in 1..Len(s), dot \in 1..Len(s) :
        /\ s[at] = "@"
        /\ s[dot] = "."
        /\ at >= 2
        /\ dot >= at + 2
        /\ Len(s) - dot >= 2
        /\ \A i \in 1..(at - 1) : s[i] \in LocalChars
        /\ \A i \in (at + 1)..(dot - 1) : s[i] \in DomainChars
        /\ \A i \in (dot + 1)..Len(s) : s[i] \in Alpha

\* re.match(pattern, email): "$" also matches just before a final newline
validate_email(e) ==
    IF e = <<>> THEN FALSE
    ELSE \/ MatchesEmailPattern(e)
         \/ /\ e[Len(e)] = "LF"
            /\ MatchesEmailPattern(SubSeq(e, 1, Len(e) - 1))

IsNotPhoneFormatting(c) == c \notin (Whitespace \cup {"-", "(", ")", "+"})

\* str.isdigit(): non-empty and digits only
IsDigit(s) == Len(s) > 0 /\ \A i \in 1..Len(s) : s[i] \in Digits

validate_phone(p) ==
    IF p = <<>> THEN TRUE
    ELSE LET cleaned == SelectSeq(p, IsNotPhoneFormatting)
         IN  IsDigit(cleaned) /\ Len(cleaned) >= PHONE_MIN_DIGITS

\* a plausible slip: the upper bound excluded, as the message text suggests
NameErrorsExclusiveMax(n) ==
    IF n = <<>> THEN <<"Name is required">>
    ELSE IF Len(n) < NAME_MIN THEN <<"Name must be at least 2 characters long">>
    ELSE IF Len(n) >= NAME_MAX THEN <<"Name must be less than 100 characters">>
    ELSE <<>>

\* app.py:114-119
NameErrors(n) ==
    IF n = <<>> THEN <<"Name is required">>
    ELSE IF Len(n) < NAME_MIN THEN <<"Name must be at least 2 characters long">>
    ELSE IF Len(n) > NAME_MAX THEN <<"Name must be less than 100 characters">>
    ELSE <<>>

\* app.py:121-124
EmailErrors(e) ==
    IF e = <<>> THEN <<"Email is required">>
    ELSE IF ~validate_email(e) THEN <<"Invalid email format">>
    ELSE <<>>

\* app.py:126-131
MessageErrors(m) ==
    IF m = <<>> THEN <<"Message is required">>
    ELSE IF Len(m) < MESSAGE_MIN THEN <<"Message must be at least 10 characters long">>
    ELSE IF Len(m) > MESSAGE_MAX THEN <<"Message must be less than 1000 characters">>
    ELSE <<>>

\* app.py:134-135
PhoneErrors(p) ==
    IF p # <<>> /\ ~validate_phone(p) THEN <<"Invalid phone number format">>
    ELSE <<>>

\* a plausible slip: validation that stops at the first field in error
ValidationErrorsFirstOnly(n, e, p, m) ==
    IF NameErrors(n) # <<>> THEN NameErrors(n)
    ELSE IF EmailErrors(e) # <<>> THEN EmailErrors(e)
    ELSE IF MessageErrors(m) # <<>> THEN MessageErrors(m)
    ELSE PhoneErrors(p)

\* app.py:112-135: the appends, in program order
ValidationErrors(n, e, p, m) ==
    NameErrors(n) \o EmailErrors(e) \o MessageErrors(m) \o PhoneErrors(p)

\* sep.join(parts), as the sequence of its pieces
Join(parts, sep) ==
    IF parts = <<>> THEN <<>>
    ELSE [i \in 1..(2 * Len(parts) - 1) |->
            IF i % 2 = 1 THEN parts[(i + 1) \div 2] ELSE sep]

-----------------------------------------------------------------------------
(* Configuration *)

PLACEHOLDER_TOKEN == "YOUR_BOT_TOKEN_HERE"

PLACEHOLDER_CHAT_ID == "YOUR_CHAT_ID_HERE"

\* what a deployment may have put in place of the placeholders
Tokens == {PLACEHOLDER_TOKEN, "123456:ABC-DEF"}

ChatIds == {PLACEHOLDER_CHAT_ID, "-1001234"}

\* app.py:20
TELEGRAM_API_URL ==
    <<"https://api.telegram.org/bot", TELEGRAM_BOT_TOKEN, "/sendMessage">>

REQUEST_TIMEOUT == 10

\* a plausible slip: "and" for "or"
CredentialsMissingBoth ==
    TELEGRAM_BOT_TOKEN = PLACEHOLDER_TOKEN /\ TELEGRAM_CHAT_ID = PLACEHOLDER_CHAT_ID

\* app.py:151
CredentialsMissing ==
    TELEGRAM_BOT_TOKEN = PLACEHOLDER_TOKEN \/ TELEGRAM_CHAT_ID = PLACEHOLDER_CHAT_ID

-----------------------------------------------------------------------------
(* Requests *)

Names ==
    { <<>>,
      <<" ">>,
      <<"A">>,
      <<" ", "A", " ">>,
      <<"A", "l">>,
      <<" ", "A", "l", "LF">>,
      <<"<", "b", ">">>,
      <<"NUL", "NUL">>,
      Rep("a", NAME_MAX),
      Rep("&", NAME_MAX),
      Rep("a", NAME_MAX + 1) }

Emails ==
    { <<>>,
      <<"a", "@", "b", ".", "c", "o">>,
      <<" ", "a", "+", "b", "@", "b", "-", "c", ".", "c", "o", "m">>,
      <<"a", "@", "b", ".", "c">> }

Phones ==
    { <<>>,
      <<"1", "2", "3", "4", "5", "6", "7", "8", "9", "0">>,
      <<"(", "1", "2", "3", ")", " ", "4", "5", "6", "-", "7", "8", "9", "0">>,
      <<"+", "1", " ", "2", "3", "4">> }

Messages ==
    { <<>>,
      Rep("a", MESSAGE_MIN - 1),
      Rep("a", MESSAGE_MIN),
      <<"<">> \o Rep("a", MESSAGE_MIN - 2) \o <<">">>,
      Rep("&", MESSAGE_MIN),
      Rep("a", MESSAGE_MAX),
      Rep("a", MESSAGE_MAX + 1) }

\* request.form.get(field, ''): an absent field reads as the empty text
Forms == [name : Names, email : Emails, phone : Phones, message : Messages]

\* datetime.now().strftime("%Y-%m-%d %H:%M:%S")
Timestamps == {"2024-01-01 00:00:00", "2024-12-31 23:59:59"}

\* app.py:72-95: the f-string, as the sequence of its pieces
format_message_for_telegram(n, e, p, m, timestamp) ==
    <<"LF", "*New Contact Form Submission*", "LF", "LF", "*Date:* ", timestamp, "LF",
      "*Location:* McDonald's NYC - Times Square", "LF", "LF", "*Name:* ">>
    \o n \o <<"LF", "*Email:* ">> \o e \o <<"LF", "*Phone:* ">>
    \o (IF p # <<>> THEN p ELSE <<"Not provided">>)
    \o <<"LF", "LF", "*Message:*", "LF">> \o m
    \o <<"LF", "LF", "---", "LF",
         "This message was sent from the McDonald's Times Square contact form.", "LF">>

\* jsonify({'success': ..., 'message': ...}), status
Response(status, success, text) ==
    [status |-> status, success |-> success, message |-> text]

MSG_SENT ==
    <<"Thank you! Your message has been sent successfully. We will get back to you soon.">>

MSG_FAILED == <<"Failed to send message. Please try again later.">>

MSG_UNEXPECTED == <<"An unexpected error occurred. Please try again later.">>

MSG_CONFIG ==
    <<"Server configuration error: Telegram Bot Token or Chat ID not configured">>

\* the state a request ends in, by the status of its response
TerminalOf(status) ==
    CASE status = 200 -> "DELIVERED"
      [] status = 400 -> "REJECTED"
      [] OTHER        -> "FAILED"

Terminal == {"REJECTED", "DELIVERED", "FAILED"}

-----------------------------------------------------------------------------
(* The remote end *)

\* a 3xx answer without a Location header is returned as it is
StatusCodes == {200, 300, 400, 500}

\* the body of the remote answer: how it parses as JSON and, for an object,
\* the value under "ok"
Bodies ==
    { [json |-> "invalid", ok |-> "absent"],
      [json |-> "array",   ok |-> "absent"],
      [json |-> "object",  ok |-> "absent"],
      [json |-> "object",  ok |-> "true"],
      [json |-> "object",  ok |-> "false"],
      [json |-> "object",  ok |-> "1"] }


NoBody == [json |-> "invalid", ok |-> "absent"]

NoOutcome == [kind |-> "none", status |-> 0, body |-> NoBody]

RemoteOutcomes ==
    { [kind |-> k, status |-> 0, body |-> NoBody] : k \in {"Timeout", "ConnectionError"} }
    \cup { [kind |-> "response", status |-> s, body |-> b] : s \in StatusCodes, b \in Bodies }

\* Python truthiness of dict.get('ok'); an absent key reads None
Truthy(v) == v \in {"true", "1"}

\* what lines 168-177 raise on this outcome, "none" if nothing
ExceptionRaised(outcome) ==
    IF outcome.kind # "response" THEN outcome.kind
    ELSE IF outcome.status >= 400 /\ outcome.status < 600 THEN "HTTPError"
    ELSE IF outcome.body.json = "invalid" THEN "JSONDecodeError"
    ELSE IF outcome.body.json # "object" THEN "AttributeError"
    ELSE "none"

\* except requests.exceptions.RequestException (app.py:188)
IsRequestException(exc) ==
    \/ exc \in {"Timeout", "ConnectionError", "HTTPError"}
    \/ exc = "JSONDecodeError" /\ json_error_is_request_exception

\* a plausible slip: no outer handler
OuterExceptMissing(exc) == FALSE

\* except Exception (app.py:196): everything raised here derives from Exception
OuterExceptCatches(exc) ==
    exc \in {"Timeout", "ConnectionError", "HTTPError", "JSONDecodeError", "AttributeError"}

\* app.py:174-202: the response to an outcome that is answered
DispatchResponse(outcome) ==
    LET exc == ExceptionRaised(outcome)
    IN  IF exc = "none"
        THEN IF Truthy(outcome.body.ok)
             THEN Response(200, TRUE, MSG_SENT)
             ELSE Response(500, FALSE, MSG_FAILED)
        ELSE IF IsRequestException(exc)
             THEN Response(500, FALSE, MSG_FAILED)
             ELSE Response(500, FALSE, MSG_UNEXPECTED)

\* app.py:161-172
Post ==
    [url |-> TELEGRAM_API_URL,
     json |-> [chat_id |-> TELEGRAM_CHAT_ID, text |-> telegram_message,
               parse_mode |-> "Markdown"],
     timeout |-> REQUEST_TIMEOUT]

\* a plausible slip: one retry after a failed delivery
OutboundPostsWithRetry(outcome) ==
    IF DispatchResponse(outcome).status = 200 THEN <<Post>> ELSE <<Post, Post>>

\* app.py:168: requests.post is called once, whatever comes back
OutboundPosts(outcome) == <<Post>>

-----------------------------------------------------------------------------
(* submit_contact_form *)

config == <<TELEGRAM_BOT_TOKEN, TELEGRAM_CHAT_ID, json_error_is_request_exception>>

harness == <<san_in, san_once, san_twice, san_pc>>

\* a request that has just arrived at a started server
NoRequest ==
    /\ state = "RECEIVED"
    /\ form = [name |-> <<>>, email |-> <<>>, phone |-> <<>>, message |-> <<>>]
    /\ name = <<>>
    /\ email = <<>>
    /\ phone = <<>>
    /\ message = <<>>
    /\ validation_errors = <<>>
    /\ sanitize_calls = 0
    /\ telegram_message = <<>>
    /\ outbound = <<>>
    /\ remote = NoOutcome
    /\ fault = "none"
    /\ escaped = FALSE
    /\ responses = <<>>

HarnessOff ==
    /\ san_in = <<>>
    /\ san_once = <<>>
    /\ san_twice = <<>>
    /\ san_pc = "off"

Init ==
    /\ TELEGRAM_BOT_TOKEN \in Tokens
    /\ TELEGRAM_CHAT_ID \in ChatIds
    /\ json_error_is_request_exception \in BOOLEAN
    /\ NoRequest
    /\ HarnessOff

\* a plausible slip: an empty form answered before validation
ReceiveRejectingEmpty ==
    /\ state = "RECEIVED"
    /\ form' \in Forms
    /\ name' = Strip(form'.name)
    /\ email' = Strip(form'.email)
    /\ phone' = Strip(form'.phone)
    /\ message' = Strip(form'.message)
    /\ IF form'.name = <<>> /\ form'.email = <<>> /\ form'.message = <<>>
       THEN /\ responses' = Append(responses,
                                   Response(400, FALSE, <<"Validation errors: ">>))
            /\ state' = "REJECTED"
       ELSE /\ responses' = responses
            /\ state' = "VALIDATING"
    /\ UNCHANGED <<config, harness, validation_errors, sanitize_calls, telegram_message,
                   outbound, remote, fault, escaped>>

\* app.py:106-109
Receive ==
    /\ state = "RECEIVED"
    /\ form' \in Forms
    /\ name' = Strip(form'.name)
    /\ email' = Strip(form'.email)
    /\ phone' = Strip(form'.phone)
    /\ message' = Strip(form'.message)
    /\ state' = "VALIDATING"
    /\ UNCHANGED <<config, harness, validation_errors, sanitize_calls, telegram_message,
                   outbound, remote, fault, escaped, responses>>

\* a plausible slip: the fields sanitized before the error list is looked at
ValidateAfterSanitizing ==
    /\ state = "VALIDATING"
    /\ validation_errors' = ValidationErrors(name, email, phone, message)
    /\ name' = sanitize_input(name)
    /\ email' = sanitize_input(email)
    /\ phone' = IF phone # <<>> THEN sanitize_input(phone) ELSE <<>>
    /\ message' = sanitize_input(message)
    /\ sanitize_calls' = sanitize_calls + (IF phone # <<>> THEN 4 ELSE 3)
    /\ IF validation_errors' # <<>>
       THEN /\ responses' = Append(responses,
                   Response(400, FALSE,
                            <<"Validation errors: ">> \o Join(validation_errors', ", ")))
            /\ state' = TerminalOf(400)
       ELSE /\ responses' = responses
            /\ state' = "SANITIZING"
    /\ UNCHANGED <<config, harness, form, telegram_message, outbound, remote, fault,
                   escaped>>

\* app.py:112-142
Validate ==
    /\ state = "VALIDATING"
    /\ validation_errors' = ValidationErrors(name, email, phone, message)
    /\ IF validation_errors' # <<>>
       THEN /\ responses' = Append(responses,
                   Response(400, FALSE,
                            <<"Validation errors: ">> \o Join(validation_errors', ", ")))
            /\ state' = TerminalOf(400)
       ELSE /\ responses' = responses
            /\ state' = "SANITIZING"
    /\ UNCHANGED <<config, harness, form, name, email, phone, message, sanitize_calls,
                   telegram_message, outbound, remote, fault, escaped>>

\* app.py:145-155
Sanitize ==
    /\ state = "SANITIZING"
    /\ name' = sanitize_input(name)
    /\ email' = sanitize_input(email)
    /\ phone' = IF phone # <<>> THEN sanitize_input(phone) ELSE <<>>
    /\ message' = sanitize_input(message)
    /\ sanitize_calls' = sanitize_calls + (IF phone # <<>> THEN 4 ELSE 3)
    /\ IF CredentialsMissing
       THEN /\ responses' = Append(responses, Response(500, FALSE, MSG_CONFIG))
            /\ state' = TerminalOf(500)
       ELSE /\ responses' = responses
            /\ state' = "FORMATTING"
    /\ UNCHANGED <<config, harness, form, validation_errors, telegram_message, outbound,
                   remote, fault, escaped>>

\* app.py:158-165
Format ==
    /\ state = "FORMATTING"
    /\ \E timestamp \in Timestamps :
        telegram_message' =
            format_message_for_telegram(name, email, phone, message, timestamp)
    /\ state' = "DISPATCHING"
    /\ UNCHANGED <<config, harness, form, name, email, phone, message, validation_errors,
                   sanitize_calls, outbound, remote, fault, escaped, responses>>

\* app.py:167-202
Dispatch ==
    /\ state = "DISPATCHING"
    /\ \E outcome \in RemoteOutcomes :
        LET exc == ExceptionRaised(outcome)
        IN  /\ outbound' = outbound \o OutboundPosts(outcome)
            /\ remote' = outcome
            /\ fault' = exc
            /\ IF exc = "none" \/ IsRequestException(exc) \/ OuterExceptCatches(exc)
               THEN /\ responses' = Append(responses, DispatchResponse(outcome))
                    /\ escaped' = FALSE
                    /\ state' = TerminalOf(DispatchResponse(outcome).status)
               ELSE /\ responses' = responses
                    /\ escaped' = TRUE
                    /\ state' = "FAILED"
    /\ UNCHANGED <<config, harness, form, name, email, phone, message, validation_errors,
                   sanitize_calls, telegram_message>>

Next == Receive \/ Validate \/ Sanitize \/ Format \/ Dispatch

Spec == Init /\ [][Next]_vars

\* the handler is straight-line code and the one blocking call returns or times
\* out after REQUEST_TIMEOUT seconds, so a step that can be taken is taken
FairSpec == Spec /\ WF_vars(Next)

-----------------------------------------------------------------------------
(* sanitize_input on its own: every text over SanitizeAlphabet up to MaxLen *)

MaxLen == 4

SanitizeAlphabet == {"a", "&", "<", ">", "'", "\"", " ", "NUL"}

SanitizeInputs == UNION {[1..n -> SanitizeAlphabet] : n \in 0..MaxLen}

InitSanitize ==
    /\ TELEGRAM_BOT_TOKEN = PLACEHOLDER_TOKEN
    /\ TELEGRAM_CHAT_ID = PLACEHOLDER_CHAT_ID
    /\ json_error_is_request_exception = TRUE
    /\ NoRequest
    /\ san_in \in SanitizeInputs
    /\ san_once = <<>>
    /\ san_twice = <<>>
    /\ san_pc = "in"

SanitizeOnce ==
    /\ san_pc = "in"
    /\ san_once' = sanitize_input(san_in)
    /\ san_pc' = "once"
    /\ UNCHANGED <<config, state, form, name, email, phone, message, validation_errors,
                   sanitize_calls, telegram_message, outbound, remote, fault, escaped,
                   responses, san_in, san_twice>>

SanitizeTwice ==
    /\ san_pc = "once"
    /\ san_twice' = sanitize_input(san_once)
    /\ san_pc' = "twice"
    /\ UNCHANGED <<config, state, form, name, email, phone, message, validation_errors,
                   sanitize_calls, telegram_message, outbound, remote, fault, escaped,
                   responses, san_in, san_once>>

NextSanitize == SanitizeOnce \/ SanitizeTwice

SpecSanitize == InitSanitize /\ [][NextSanitize]_vars

-----------------------------------------------------------------------------
(* Properties *)

Answered == state \in Terminal

\* validation has run
Validated == state \notin {"RECEIVED", "VALIDATING"}

\* validation has run and found nothing
PassedValidation == state \in {"SANITIZING", "FORMATTING", "DISPATCHING", "DELIVERED", "FAILED"}

PlaceholderLeft ==
    TELEGRAM_BOT_TOKEN = "YOUR_BOT_TOKEN_HERE" \/ TELEGRAM_CHAT_ID = "YOUR_CHAT_ID_HERE"

(* C1: a request whose validation error list is non-empty is answered 400  *)
(* with success=false whatever the configuration, and in that request      *)
(* sanitize_input is never applied, nothing is formatted and no outbound   *)
(* POST is issued.                                                          *)
InvalidRequestRejectedUntouched ==
    (Validated /\ validation_errors # <<>>) =>
        /\ state = "REJECTED"
        /\ Len(responses) = 1
        /\ responses[1].status = 400
        /\ responses[1].success = FALSE
        /\ sanitize_calls = 0
        /\ telegram_message = <<>>
        /\ outbound = <<>>

InvalidRequestRejectedWitness ==
    /\ state = "REJECTED"
    /\ validation_errors # <<>>
    /\ ~PlaceholderLeft
    /\ responses[1].status = 400

(* C2: a request that passes validation while the token or the chat id     *)
(* (either one) is still its placeholder is answered 500 with success=false *)
(* and the server-configuration message, and issues no outbound POST.       *)
PlaceholderGivesConfigError ==
    (PassedValidation /\ PlaceholderLeft) =>
        /\ outbound = <<>>
        /\ state \in {"SANITIZING", "FAILED"}
        /\ state = "FAILED" =>
               responses = <<[status |-> 500, success |-> FALSE,
                              message |-> <<"Server configuration error: Telegram Bot Token or Chat ID not configured">>]>>

PlaceholderGivesConfigErrorWitness ==
    /\ state = "FAILED"
    /\ TELEGRAM_BOT_TOKEN # "YOUR_BOT_TOKEN_HERE"
    /\ TELEGRAM_CHAT_ID = "YOUR_CHAT_ID_HERE"
    /\ Len(responses) = 1
    /\ responses[1].status = 500

\* RECEIVED -> VALIDATING -> {REJECTED | SANITIZING -> FORMATTING -> DISPATCHING
\*                                                  -> {DELIVERED | FAILED}}
StateMachine ==
    { <<"RECEIVED", "VALIDATING">>, <<"VALIDATING", "REJECTED">>,
      <<"VALIDATING", "SANITIZING">>, <<"SANITIZING", "FORMATTING">>,
      <<"FORMATTING", "DISPATCHING">>, <<"DISPATCHING", "DELIVERED">>,
      <<"DISPATCHING", "FAILED">> }

(* C3 as stated: every request follows RECEIVED -> VALIDATING -> {REJECTED  *)
(* | SANITIZING -> FORMATTING -> DISPATCHING -> {DELIVERED | FAILED}} and   *)
(* takes no other transition, the configuration-error path included.        *)
OnlyStateMachineTransitions ==
    [][state' # state => <<state, state'>> \in StateMachine]_vars

(* C3 as amended: every transition is one of the state machine, or the      *)
(* configuration-error transition SANITIZING -> FAILED, which is taken only *)
(* with a placeholder left and answers 500 without formatting or posting.   *)
StateMachineOrConfigError ==
    [][state' # state =>
          \/ <<state, state'>> \in StateMachine
          \/ /\ state = "SANITIZING"
             /\ state' = "FAILED"
             /\ PlaceholderLeft
             /\ telegram_message' = <<>>
             /\ outbound' = <<>>
             /\ Len(responses') = 1
             /\ responses'[1].status = 500]_vars

ConfigErrorPathWitness ==
    /\ state = "FAILED"
    /\ PlaceholderLeft
    /\ telegram_message = <<>>
    /\ sanitize_calls > 0

\* the remote answered 2xx with a body whose "ok" is truthy
RemoteAccepted ==
    /\ remote.kind = "response"
    /\ remote.status >= 200
    /\ remote.status <= 299
    /\ remote.body.json = "object"
    /\ remote.body.ok \in {"true", "1"}

(* C4: a request that reached the outbound call is answered 200 with        *)
(* success=true iff the remote answered 2xx with a truthy "ok"; in every    *)
(* other outcome it is answered 500 with success=false and the fixed        *)
(* message 'Failed to send message. Please try again later.'                *)
DeliveryOutcomeMapping ==
    (Answered /\ outbound # <<>>) =>
        /\ Len(responses) = 1
        /\ IF RemoteAccepted
           THEN responses[1].status = 200 /\ responses[1].success = TRUE
           ELSE responses[1] =
                    [status |-> 500, success |-> FALSE,
                     message |-> <<"Failed to send message. Please try again later.">>]

NoSpecialCharLeft(s) == \A i \in 1..Len(s) : s[i] \notin {"&", "<", ">", "\"", "'"}

(* C5 as stated: sanitize_input is idempotent, for every input string s     *)
(* sanitize_input(sanitize_input(s)) = sanitize_input(s).                   *)
SanitizeIdempotent ==
    san_pc = "twice" => san_twice = san_once

(* C5 as amended: sanitize_input(sanitize_input(s)) = sanitize_input(s)     *)
(* exactly for the inputs s that hold none of & < > " ' once their tag-like *)
(* substrings are stripped; on every other input the second application     *)
(* changes the result.                                                      *)
SanitizeIdempotentWithoutSpecials ==
    san_pc = "twice" =>
        (san_twice = san_once <=> NoSpecialCharLeft(RemoveTags(san_in)))

SanitizeIdempotentWitness ==
    /\ san_pc = "twice"
    /\ san_twice = san_once
    /\ san_once # <<>>
    /\ \E i \in 1..Len(san_in) : san_in[i] = "<"
    /\ \E i \in 1..Len(san_in) : san_in[i] = "NUL"

NameMessages ==
    {"Name is required", "Name must be at least 2 characters long",
     "Name must be less than 100 characters"}

EmailMessages == {"Email is required", "Invalid email format"}

MessageMessages ==
    {"Message is required", "Message must be at least 10 characters long",
     "Message must be less than 1000 characters"}

PhoneMessages == {"Invalid phone number format"}

\* the field an error message is about: name, email, message, phone
FieldRank(msg) ==
    CASE msg \in NameMessages    -> 1
      [] msg \in EmailMessages   -> 2
      [] msg \in MessageMessages -> 3
      [] msg \in PhoneMessages   -> 4
      [] OTHER                   -> 0

\* whether the field of that rank breaks its rule, on the trimmed input
BreaksRule(rank) ==
    CASE rank = 1 -> Len(Strip(form.name)) \notin 2..100
      [] rank = 2 -> ~validate_email(Strip(form.email))
      [] rank = 3 -> Len(Strip(form.message)) \notin 10..1000
      [] rank = 4 -> ~validate_phone(Strip(form.phone))

(* C6: validation is not short-circuited: the error list holds exactly one *)
(* message for each field that breaks its rule and none for a field that   *)
(* keeps it, in the order name, email, message, phone; the 400 message is   *)
(* 'Validation errors: ' followed by those messages joined with ', '.       *)
AllViolationsCollected ==
    Validated =>
        /\ \A i \in 1..Len(validation_errors) : FieldRank(validation_errors[i]) # 0
        /\ \A i, j \in 1..Len(validation_errors) :
               i < j => FieldRank(validation_errors[i]) < FieldRank(validation_errors[j])
        /\ \A rank \in 1..4 :
               BreaksRule(rank) <=>
                   \E i \in 1..Len(validation_errors) :
                       FieldRank(validation_errors[i]) = rank
        /\ state = "REJECTED" =>
               LET text == responses[1].message
               IN  /\ Len(text) = 2 * Len(validation_errors)
                   /\ text[1] = "Validation errors: "
                   /\ \A i \in 1..Len(validation_errors) :
                          /\ text[2 * i] = validation_errors[i]
                          /\ i > 1 => text[2 * i - 1] = ", "

AllViolationsCollectedWitness ==
    /\ state = "REJECTED"
    /\ Len(validation_errors) = 4
    /\ Len(responses[1].message) = 8

(* C7: a name whose trimmed length is below 2 (0 included) or above 100 is *)
(* rejected with a name error ("Name is required" for length 0, the        *)
(* at-least-2 message for length 1, the less-than-100 message above 100);  *)
(* a name whose trimmed length is in [2, 100], both bounds included,       *)
(* produces no name error.                                                  *)
NameLengthBounds ==
    Validated =>
        LET n == Len(Strip(form.name))
            errs == {validation_errors[i] : i \in 1..Len(validation_errors)}
        IN  /\ (n < 2 \/ n > 100) =>
                   /\ state = "REJECTED"
                   /\ responses[1].status = 400
                   /\ validation_errors[1] =
                          (IF n = 0 THEN "Name is required"
                           ELSE IF n < 2 THEN "Name must be at least 2 characters long"
                           ELSE "Name must be less than 100 characters")
            /\ (n >= 2 /\ n <= 100) => errs \cap NameMessages = {}

NameLengthBoundsWitness ==
    /\ state = "SANITIZING"
    /\ Len(Strip(form.name)) = 100

WellFormedResponses ==
    \A i \in 1..Len(responses) :
        /\ responses[i].success \in BOOLEAN
        /\ Len(responses[i].message) > 0
        /\ responses[i].success => responses[i].status = 200

(* C8: every request eventually ends with exactly one JSON response that   *)
(* carries a boolean success and a message, success=true only with status  *)
(* 200; a fault raised while processing (a remote body that is no JSON or   *)
(* no JSON object included) gives 500 with success=false and never leaves   *)
(* the handler.                                                             *)
AlwaysOneResponse ==
    /\ [](/\ Len(responses) <= 1
          /\ WellFormedResponses
          /\ ~escaped
          /\ fault # "none" =>
                 /\ state = "FAILED"
                 /\ Len(responses) = 1
                 /\ responses[1].status = 500
                 /\ responses[1].success = FALSE)
    /\ <>(Answered /\ Len(responses) = 1)

FaultAnsweredWitness ==
    /\ state = "FAILED"
    /\ fault = "AttributeError"
    /\ remote.body.json = "array"
    /\ Len(responses) = 1

(* C9: a request issues at most one outbound POST: after a failed or       *)
(* rejected delivery the handler answers without a second POST, and a       *)
(* request answered as DELIVERED issued exactly one.                        *)
AtMostOnePost ==
    /\ Len(outbound) <= 1
    /\ state = "DELIVERED" => Len(outbound) = 1
    /\ (Answered /\ remote.kind # "none") => Len(outbound) = 1

NoRetryWitness ==
    /\ state = "FAILED"
    /\ remote.kind = "Timeout"
    /\ Len(outbound) = 1

(* C10: whenever an outbound POST is issued, the field values rendered into *)
(* the notification still keep the field rules: the sanitized name has      *)
(* length in [2, 100] and the sanitized message has length in [10, 1000].   *)
RenderedFieldsKeepRules ==
    outbound # <<>> =>
        /\ \E timestamp \in Timestamps :
               outbound[1].json.text =
                   format_message_for_telegram(name, email, phone, message, timestamp)
        /\ Len(name) >= 2
        /\ Len(name) <= 100
        /\ Len(message) >= 10
        /\ Len(message) <= 1000

====
